---- MODULE Spec2Model ----
(***************************************************************************)
(* Model of the notebook nltk_vs_spacy.ipynb: the cells are run top to     *)
(* bottom (load, n_chars, spaCy timing loop, NLTK timing loop, log         *)
(* transform, two regressions, plot).  An uncaught exception stops the     *)
(* run at the cell that raised it.                                         *)
(***************************************************************************)
EXTENDS Integers, Sequences, FiniteSets, TLC

(* ---------------------------- bounds ---------------------------------- *)
\* largest number of entries of the corpus file
MaxSamples == 2
\* largest number of characters of one string of the corpus file
MaxStrLen == 2
\* readings of the wall clock range over 0..MaxClock
MaxClock == 1
\* largest number of (size, duration) pairs handed to the Fitter on its own
MaxPoints == 3
\* the sizes and durations handed to the Fitter on its own are 10^0 .. 10^MaxExp
MaxExp == 2

(* ----------------------- program constants ---------------------------- *)
\* range(3) of the spaCy loop
SpacyTrials == 3
\* range(3) of the NLTK loop
NltkTrials == 3

(* --------------------- the corpus file (JSON) ------------------------- *)
\* the text the subsets are taken from, as it is written in the file: a
\* string literal is written with plain characters and escape sequences
\* (two characters of the file, one of the string)
SourceText == [j \in 1..MaxStrLen |-> IF j % 2 = 1 THEN "a" ELSE "\\n"]

\* each subset starts from the beginning of the text
Subsets == {SubSeq(SourceText, 1, n) : n \in 0..MaxStrLen}

RECURSIVE SeqsUpTo(_, _)
SeqsUpTo(S, n) ==
    IF n = 0 THEN {<<>>}
    ELSE LET shorter == SeqsUpTo(S, n - 1)
         IN  shorter \cup {Append(s, x) : s \in {q \in shorter : Len(q) = n - 1}, x \in S}

\* JSON values that can be an entry of the document
JStrings == {[t |-> "str", v |-> s] : s \in Subsets}
JNumber == [t |-> "num", v |-> <<>>]
JElems == JStrings \cup {JNumber}

\* what open('dracula_subsets.json').read() can meet
Docs ==
    {[kind |-> k, items |-> <<>>] : k \in {"missing", "unreadable", "malformed", "number"}}
    \cup {[kind |-> "array", items |-> s] : s \in SeqsUpTo(JElems, MaxSamples)}
    \cup {[kind |-> "object", items |-> s] : s \in SeqsUpTo(JStrings, MaxSamples)}
    \cup {[kind |-> "string", items |-> <<s>>] : s \in JStrings}

(* ------------------------- json.loads --------------------------------- *)
\* one piece of a string literal decodes to one character
CharOf(tok) == IF tok = "\\n" THEN "LF" ELSE tok

\* a JSON string literal decodes to a str
py_scanstring(toks) == [j \in 1..Len(toks) |-> CharOf(toks[j])]

\* a JSON entry decodes to a Python value
DecodeElem(e) ==
    IF e.t = "str" THEN [t |-> "str", v |-> py_scanstring(e.v)]
    ELSE [t |-> "int", v |-> <<>>]

\* the keys of a dict: a repeated key keeps its first position
RECURSIVE DictKeys(_)
DictKeys(s) ==
    IF s = <<>> THEN <<>>
    ELSE LET front == DictKeys(SubSeq(s, 1, Len(s) - 1))
             last == s[Len(s)]
         IN  IF \E j \in 1..Len(front) : front[j] = last THEN front
             ELSE Append(front, last)

\* json.loads that drops repeated entries of an array
json_loads_dedups(d) ==
    IF d.kind = "array"
    THEN [t |-> "list", v |-> DictKeys([j \in 1..Len(d.items) |-> DecodeElem(d.items[j])])]
    ELSE [t |-> "int", v |-> <<>>]

\* json.loads of a well-formed document
json_loads(d) ==
    CASE d.kind = "array" ->
           [t |-> "list", v |-> [j \in 1..Len(d.items) |-> DecodeElem(d.items[j])]]
      [] d.kind = "object" ->
           [t |-> "dict", v |-> DictKeys([j \in 1..Len(d.items) |-> DecodeElem(d.items[j])])]
      [] d.kind = "string" ->
           [t |-> "str", v |-> py_scanstring(d.items[1].v)]
      [] OTHER -> [t |-> "int", v |-> <<>>]

\* a lenient parser that returns a number for malformed text
LoadError_lenient(d) ==
    CASE d.kind = "missing" -> "FileNotFoundError"
      [] d.kind = "unreadable" -> "PermissionError"
      [] OTHER -> "none"

\* the exception of open(...).read() / json.loads, "none" when they return
LoadError(d) ==
    CASE d.kind = "missing" -> "FileNotFoundError"
      [] d.kind = "unreadable" -> "PermissionError"
      [] d.kind = "malformed" -> "JSONDecodeError"
      [] OTHER -> "none"

(* ---------------------- Python built-ins ------------------------------ *)
Undefined == [t |-> "undef", v |-> <<>>]

\* iter(x) is defined for list, dict (its keys) and str (its characters)
Iterable(x) == x.t \in {"list", "dict", "str"}

Iter(x) ==
    IF x.t = "str" THEN [j \in 1..Len(x.v) |-> [t |-> "str", v |-> <<x.v[j]>>]]
    ELSE x.v

\* len(x) is defined for str, list and dict
Sized(x) == x.t \in {"str", "list", "dict"}

len(x) == Len(x.v)

\* the first trial instead of the smallest
min_takes_first(s) == s[1]

\* min(times)
RECURSIVE min(_)
min(s) ==
    IF Len(s) = 1 THEN s[1]
    ELSE LET m == min(SubSeq(s, 1, Len(s) - 1))
         IN  IF s[Len(s)] < m THEN s[Len(s)] ELSE m

\* time(): a reading of the wall clock
ClockReadings == 0..MaxClock

(* ------------------- numbers of the regression ------------------------ *)
\* slope, intercept and r**2 are fractions num/den with den > 0
Zero == [num |-> 0, den |-> 1]

\* m, b, r are not bound yet
NoFit == [done |-> FALSE, nan |-> FALSE, slope |-> Zero, intercept |-> Zero, r_squared |-> Zero]

RECURSIVE Pow10(_)
Pow10(e) == IF e = 0 THEN 1 ELSE 10 * Pow10(e - 1)

\* math.log10(x), for x a power of ten
RECURSIVE log10(_)
log10(x) == IF x = 1 THEN 0 ELSE 1 + log10(x \div 10)

RECURSIVE Sum(_)
Sum(s) == IF s = <<>> THEN 0 ELSE Sum(SubSeq(s, 1, Len(s) - 1)) + s[Len(s)]

Products(x, y) == [j \in 1..Len(x) |-> x[j] * y[j]]

\* sums of products taken without the means
Cov_uncentred(x, y) == Len(x) * Sum(Products(x, y))

\* np.cov(x, y, bias=1), times n*n: the mean of the products of the deviations
Cov(x, y) == Len(x) * Sum(Products(x, y)) - Sum(x) * Sum(y)

\* the square of r with ssxm written twice in r_den
CorrSq_typo(ssxm, ssxym, ssym) ==
    IF ssxm * ssym = 0 THEN Zero
    ELSE [num |-> ssxym * ssxym, den |-> ssxm * ssxm]

\* r = r_num / r_den with r_den = sqrt(ssxm * ssym), 0.0 when r_den is 0; then r**2
\* (the clamp of r to [-1, 1] only acts on rounding error, which fractions do not have)
CorrSq(ssxm, ssxym, ssym) ==
    IF ssxm * ssym = 0 THEN Zero
    ELSE [num |-> ssxym * ssxym, den |-> ssxm * ssym]

\* stats.linregress(x, y) followed by r**2; with a single x the slope is 0/0
linregress(x, y) ==
    LET n == Len(x)
        ssxm == Cov(x, x)
        ssxym == Cov(x, y)
        ssym == Cov(y, y)
    IN  IF ssxm = 0
        THEN [done |-> TRUE, nan |-> TRUE, slope |-> Zero, intercept |-> Zero,
              r_squared |-> Zero]
        ELSE [done |-> TRUE, nan |-> FALSE,
              slope |-> [num |-> ssxym, den |-> ssxm],
              intercept |-> [num |-> Sum(y) * ssxm - ssxym * Sum(x), den |-> n * ssxm],
              r_squared |-> CorrSq(ssxm, ssxym, ssym)]

(* ----------------------------- state ---------------------------------- *)
VARIABLES
    doc,        \* the content of dracula_subsets.json
    cell,       \* the cell being run (the cell that raised, once err is set), or "done"
    pc,         \* the position inside a timing loop
    bound,      \* the names the session has bound so far
    text_data, n_chars, spacy, nltk, times, t1,
    i,          \* how many items the running for loop has taken
    k,          \* how many trials of the current sample have been completed
    err,        \* the exception that ended the run, "none" otherwise
    thrown,     \* the exception a pipeline raised, "none" otherwise
    calls,      \* how often each pipeline has been invoked
    sampleOf,   \* for each recorded result, the index of the sample it was taken for
    log_chars, log_spacy, log_nltk,
    fitres,     \* per pipeline, what stats.linregress returned
    measuring,  \* the trials whose t1 has been read and whose t2 has not
    trialLog    \* the durations measured so far for the sample being timed

\* the variables of the regression cells
fitVars == <<log_chars, log_spacy, log_nltk, fitres>>

\* the record of the measurements
logVars == <<measuring, trialLog>>

vars == <<doc, cell, pc, bound, text_data, n_chars, spacy, nltk, times, t1,
          i, k, err, thrown, calls, sampleOf, fitVars, logVars>>

Pipelines == {"spacy", "nltk"}

Init ==
    /\ doc \in Docs
    /\ cell = "load"
    /\ pc = "-"
    /\ bound = {}
    /\ text_data = Undefined
    /\ n_chars = <<>>
    /\ spacy = <<>>
    /\ nltk = <<>>
    /\ times = <<>>
    /\ t1 = 0
    /\ i = 0
    /\ k = 0
    /\ err = "none"
    /\ thrown = "none"
    /\ calls = [p \in Pipelines |-> 0]
    /\ sampleOf = [p \in Pipelines |-> <<>>]
    /\ log_chars = <<>>
    /\ log_spacy = <<>>
    /\ log_nltk = <<>>
    /\ fitres = [p \in Pipelines |-> NoFit]
    /\ measuring = {}
    /\ trialLog = <<>>

\* an uncaught exception ends the run
Abort(e) ==
    /\ err' = e
    /\ UNCHANGED <<cell, pc>>

(* ------------------------- Corpus Loader ------------------------------ *)
\* text_data = json.loads(open('dracula_subsets.json').read())
Load ==
    /\ err = "none" /\ cell = "load"
    /\ IF LoadError(doc) # "none"
       THEN /\ Abort(LoadError(doc))
            /\ UNCHANGED <<bound, text_data>>
       ELSE /\ text_data' = json_loads(doc)
            /\ bound' = bound \cup {"text_data"}
            /\ cell' = "n_chars"
            /\ UNCHANGED <<pc, err>>
    /\ UNCHANGED <<doc, n_chars, spacy, nltk, times, t1, i, k, thrown, calls, sampleOf, fitVars, logVars>>

\* n_chars = [len(text) for text in text_data]
CountChars ==
    /\ err = "none" /\ cell = "n_chars"
    /\ IF ~Iterable(text_data) \/ \E j \in 1..Len(Iter(text_data)) : ~Sized(Iter(text_data)[j])
       THEN /\ Abort("TypeError")
            /\ UNCHANGED <<bound, n_chars>>
       ELSE /\ n_chars' = [j \in 1..Len(Iter(text_data)) |-> len(Iter(text_data)[j])]
            /\ bound' = bound \cup {"n_chars"}
            /\ cell' = "spacy"
            /\ pc' = "init"
            /\ UNCHANGED err
    /\ UNCHANGED <<doc, text_data, spacy, nltk, times, t1, i, k, thrown, calls, sampleOf, fitVars, logVars>>

(* ---------------------- Timed Pipeline Runner ------------------------- *)
\* range(3)
Trials(p) == IF p = "spacy" THEN SpacyTrials ELSE NltkTrials

\* the list a loop appends its results to
Results(p) == IF p = "spacy" THEN spacy ELSE nltk

\* a session that goes from the first loop straight to the log cell
CellAfter_nltk_skipped(p) == "log"

\* the cell that follows a timing loop
CellAfter(p) == IF p = "spacy" THEN "nltk" ELSE "log"

\* a loop whose body runs before the first test
HasNext_body_first(taken, n) == taken < n \/ taken = 0

\* a loop that stops one item early
HasNext_stops_early(taken, n) == taken + 1 < n

\* for text in text_data: the iterator has another item
HasNext(taken, n) == taken < n

\* one more run than range(3) gives
MoreTrials_one_more(done, p) == done <= Trials(p)

\* times moved out of the for loop: the list is not emptied for a new sample
FreshTimes_kept(old) == old

\* times = []
FreshTimes(old) == <<>>

\* for _ in range(3): the range has another value
MoreTrials(done, p) == done < Trials(p)

\* t2-t1
Elapsed(a, b) == b - a

\* the exceptions a pipeline call can end with
PipelineErrors == {"LookupError", "MemoryError"}

\* a handler that swallows the exception of a trial
Handled_swallows(e) == TRUE

\* the timing loops have no try/except: no exception is handled
Handled(e) == FALSE

\* the second loop written as a copy of the first: it assigns to spacy too
SetResults_always_spacy(p, r) == spacy' = r /\ UNCHANGED nltk

\* spacy = ... / nltk = ...: the list of the loop is rebound, the other stays
SetResults(p, r) ==
    IF p = "spacy" THEN spacy' = r /\ UNCHANGED nltk
    ELSE nltk' = r /\ UNCHANGED spacy

\* spacy = [] / nltk = [], and the for loop takes its iterator
LoopInit(p) ==
    /\ err = "none" /\ cell = p /\ pc = "init"
    /\ SetResults(p, <<>>)
    /\ bound' = bound \cup {p}
    /\ i' = 0
    /\ pc' = "for"
    /\ UNCHANGED <<doc, cell, text_data, n_chars, times, t1, k, err, thrown, calls, sampleOf, fitVars, logVars>>

\* for text in text_data: times = [] and the trial loop starts, or the loop ends
ForNext(p) ==
    /\ err = "none" /\ cell = p /\ pc = "for"
    /\ IF HasNext(i, Len(Iter(text_data)))
       THEN /\ i' = i + 1
            /\ times' = FreshTimes(times)
            /\ trialLog' = <<>>
            /\ bound' = bound \cup {"times"}
            /\ k' = 0
            /\ pc' = IF MoreTrials(0, p) THEN "t1" ELSE "min"
            /\ UNCHANGED cell
       ELSE /\ cell' = CellAfter(p)
            /\ pc' = IF p = "spacy" THEN "init" ELSE "-"
            /\ UNCHANGED <<i, times, bound, k, trialLog>>
    /\ UNCHANGED <<doc, text_data, n_chars, spacy, nltk, t1, err, thrown, calls, sampleOf, fitVars, measuring>>

\* t1 = time()
TrialStart(p) ==
    /\ err = "none" /\ cell = p /\ pc = "t1"
    /\ \E now \in ClockReadings : t1' = now
    /\ measuring' = measuring \cup {<<p, i, k + 1>>}
    /\ bound' = bound \cup {"t1"}
    /\ pc' = "call"
    /\ UNCHANGED <<doc, cell, text_data, n_chars, spacy, nltk, times, i, k, err, thrown, calls, sampleOf, fitVars, trialLog>>

\* nlp(text) / the tokenize, pos_tag, ne_chunk statements return
PipelineReturns(p) ==
    /\ err = "none" /\ cell = p /\ pc = "call"
    /\ calls' = [calls EXCEPT ![p] = @ + 1]
    /\ pc' = "t2"
    /\ UNCHANGED <<doc, cell, bound, text_data, n_chars, spacy, nltk, times, t1, i, k, err, thrown, sampleOf, fitVars, logVars>>

\* nlp(text) / the tokenize, pos_tag, ne_chunk statements raise
PipelineRaises(p) ==
    /\ err = "none" /\ cell = p /\ pc = "call"
    /\ calls' = [calls EXCEPT ![p] = @ + 1]
    /\ \E e \in PipelineErrors :
         /\ thrown' = e
         /\ IF Handled(e)
            THEN pc' = "t2" /\ UNCHANGED <<cell, err>>
            ELSE Abort(e)
    /\ UNCHANGED <<doc, bound, text_data, n_chars, spacy, nltk, times, t1, i, k, sampleOf, fitVars, logVars>>

\* t2 = time(); times.append(t2-t1)
TrialEnd(p) ==
    /\ err = "none" /\ cell = p /\ pc = "t2"
    /\ \E t2 \in ClockReadings :
         /\ times' = Append(times, Elapsed(t1, t2))
         /\ trialLog' = Append(trialLog, Elapsed(t1, t2))
    /\ measuring' = measuring \ {<<p, i, k + 1>>}
    /\ bound' = bound \cup {"t2"}
    /\ k' = k + 1
    /\ pc' = IF MoreTrials(k + 1, p) THEN "t1" ELSE "min"
    /\ UNCHANGED <<doc, cell, text_data, n_chars, spacy, nltk, t1, i, err, thrown, calls, sampleOf, fitVars>>

\* spacy.append(min(times)) / nltk.append(min(times))
RecordMin(p) ==
    /\ err = "none" /\ cell = p /\ pc = "min"
    /\ IF times = <<>>
       THEN /\ Abort("ValueError")
            /\ UNCHANGED <<spacy, nltk, sampleOf>>
       ELSE /\ SetResults(p, Append(Results(p), min(times)))
            /\ sampleOf' = [sampleOf EXCEPT ![p] = Append(@, i)]
            /\ pc' = "for"
            /\ UNCHANGED <<cell, err>>
    /\ UNCHANGED <<doc, bound, text_data, n_chars, times, t1, i, k, thrown, calls, fitVars, logVars>>

(* -------------------- Log-Log Regression Fitter ----------------------- *)
\* a logarithm that accepts zero
Log10Defined_accepts_zero(x) == x >= 0

\* math.log10(x) raises ValueError (math domain error) unless x > 0
Log10Defined(x) == x > 0

AllLog10Defined(s) == \A j \in 1..Len(s) : Log10Defined(s[j])

\* log_chars = [...]; log_spacy = [...]; log_nltk = [...]
\* the statements run in order, the first failing one ends the run
LogTransform ==
    /\ err = "none" /\ cell = "log"
    /\ bound' = bound
                 \cup (IF AllLog10Defined(n_chars) THEN {"log_chars"} ELSE {})
                 \cup (IF AllLog10Defined(n_chars) /\ AllLog10Defined(spacy)
                       THEN {"log_spacy"} ELSE {})
                 \cup (IF AllLog10Defined(n_chars) /\ AllLog10Defined(spacy)
                          /\ AllLog10Defined(nltk)
                       THEN {"log_nltk"} ELSE {})
    /\ IF AllLog10Defined(n_chars) /\ AllLog10Defined(spacy) /\ AllLog10Defined(nltk)
       THEN cell' = "fit_spacy" /\ UNCHANGED <<pc, err>>
       ELSE Abort("ValueError")
    /\ UNCHANGED <<doc, text_data, n_chars, spacy, nltk, times, t1, i, k, thrown, calls, sampleOf, fitVars, logVars>>

\* the names a regression cell binds
FitNames(p) == IF p = "spacy" THEN {"m_spacy", "b_spacy", "r_spacy"}
               ELSE {"m_nltk", "b_nltk", "r_nltk"}

FitCell(p) == IF p = "spacy" THEN "fit_spacy" ELSE "fit_nltk"

\* the sizes leave the slope of the regression line undetermined
Degenerate(sizes) == Cardinality({sizes[j] : j \in 1..Len(sizes)}) < 2

\* m, b, r, _, _ = stats.linregress(log_chars, log_...): the call returns.
\* The notebook passes its lists on unchecked.  linregress rejects empty
\* input; on a single size it divides zero by zero, which the library
\* versions of the recorded run (Python 3.5) answer with not-a-number values
\* and a warning
FitReturns(p) ==
    /\ err = "none" /\ cell = FitCell(p)
    /\ n_chars # <<>>
    /\ bound' = bound \cup FitNames(p)
    /\ cell' = IF p = "spacy" THEN "fit_nltk" ELSE "reg"
    /\ UNCHANGED <<doc, pc, text_data, n_chars, spacy, nltk, times, t1, i, k, err, thrown, calls, sampleOf, fitVars, logVars>>

\* stats.linregress raises ValueError: always on empty input, and on a
\* single size in the library versions that check for it
FitRaises(p) ==
    /\ err = "none" /\ cell = FitCell(p)
    /\ Degenerate(n_chars)
    /\ Abort("ValueError")
    /\ UNCHANGED <<doc, bound, text_data, n_chars, spacy, nltk, times, t1, i, k, thrown, calls, sampleOf, fitVars, logVars>>

(* ---------------------- Extrapolation/Plotting ------------------------ *)
\* def reg_spacy(x): ...   def reg_nltk(x): ...
DefineReg ==
    /\ err = "none" /\ cell = "reg"
    /\ bound' = bound \cup {"reg_spacy", "reg_nltk"}
    /\ cell' = "plot"
    /\ UNCHANGED <<doc, pc, text_data, n_chars, spacy, nltk, times, t1, i, k, err, thrown, calls, sampleOf, fitVars, logVars>>

\* fig, ax = plt.subplots(dpi=300) ... ax.legend()
Plot ==
    /\ err = "none" /\ cell = "plot"
    /\ bound' = bound \cup {"fig", "ax"}
    /\ cell' = "done"
    /\ UNCHANGED <<doc, pc, text_data, n_chars, spacy, nltk, times, t1, i, k, err, thrown, calls, sampleOf, fitVars, logVars>>

Next ==
    \/ Load
    \/ CountChars
    \/ \E p \in Pipelines : LoopInit(p)
    \/ \E p \in Pipelines : ForNext(p)
    \/ \E p \in Pipelines : TrialStart(p)
    \/ \E p \in Pipelines : PipelineReturns(p)
    \/ \E p \in Pipelines : PipelineRaises(p)
    \/ \E p \in Pipelines : TrialEnd(p)
    \/ \E p \in Pipelines : RecordMin(p)
    \/ LogTransform
    \/ \E p \in Pipelines : FitReturns(p)
    \/ \E p \in Pipelines : FitRaises(p)
    \/ DefineReg
    \/ Plot

Spec == Init /\ [][Next]_vars

\* the interpreter runs the next statement whenever there is one
FairSpec == Spec /\ WF_vars(Next)


(* ------------- the Fitter on its own, with its numbers ---------------- *)
\* sizes and durations whose logarithms are whole numbers
PowersOfTen == {Pow10(e) : e \in 0..MaxExp}

\* the lists handed to the Fitter are drawn directly; the second list of
\* durations is the first one in another unit (multiplied by a constant)
FitInit ==
    /\ doc = [kind |-> "array", items |-> <<>>]
    /\ cell = "log"
    /\ pc = "-"
    /\ bound = {"n_chars", "spacy", "nltk"}
    /\ text_data = Undefined
    /\ \E n \in 1..MaxPoints :
          /\ n_chars \in [1..n -> PowersOfTen]
          /\ spacy \in [1..n -> PowersOfTen]
          /\ \E f \in PowersOfTen : nltk = [j \in 1..n |-> f * spacy[j]]
    /\ times = <<>>
    /\ t1 = 0
    /\ i = 0
    /\ k = 0
    /\ err = "none"
    /\ thrown = "none"
    /\ calls = [p \in Pipelines |-> 0]
    /\ sampleOf = [p \in Pipelines |-> <<>>]
    /\ log_chars = <<>>
    /\ log_spacy = <<>>
    /\ log_nltk = <<>>
    /\ fitres = [p \in Pipelines |-> NoFit]
    /\ measuring = {}
    /\ trialLog = <<>>

\* log_chars = [math.log10(n) for n in n_chars] and the two other lists
LogCell ==
    /\ err = "none" /\ cell = "log"
    /\ log_chars' = [j \in 1..Len(n_chars) |-> log10(n_chars[j])]
    /\ log_spacy' = [j \in 1..Len(spacy) |-> log10(spacy[j])]
    /\ log_nltk' = [j \in 1..Len(nltk) |-> log10(nltk[j])]
    /\ bound' = bound \cup {"log_chars", "log_spacy", "log_nltk"}
    /\ cell' = "fit_spacy"
    /\ UNCHANGED <<doc, pc, text_data, n_chars, spacy, nltk, times, t1, i, k, err, thrown, calls, sampleOf, fitres, logVars>>

\* the list of logarithms a regression cell passes as y
LogTimes(p) == IF p = "spacy" THEN log_spacy ELSE log_nltk

\* m, b, r, _, _ = stats.linregress(log_chars, log_...); m, b, r**2
Regress(p) ==
    /\ err = "none" /\ cell = FitCell(p)
    /\ fitres' = [fitres EXCEPT ![p] = linregress(log_chars, LogTimes(p))]
    /\ bound' = bound \cup FitNames(p)
    /\ cell' = IF p = "spacy" THEN "fit_nltk" ELSE "reg"
    /\ UNCHANGED <<doc, pc, text_data, n_chars, spacy, nltk, times, t1, i, k, err, thrown, calls, sampleOf, log_chars, log_spacy, log_nltk, logVars>>

\* stats.linregress raises on a single size, in the library versions that check for it
RegressRaises(p) ==
    /\ err = "none" /\ cell = FitCell(p)
    /\ Degenerate(log_chars)
    /\ Abort("ValueError")
    /\ UNCHANGED <<doc, bound, text_data, n_chars, spacy, nltk, times, t1, i, k, thrown, calls, sampleOf, fitVars, logVars>>

FitNext ==
    \/ LogCell
    \/ \E p \in Pipelines : Regress(p)
    \/ \E p \in Pipelines : RegressRaises(p)
    \/ DefineReg
    \/ Plot

FitSpec == FitInit /\ [][FitNext]_vars

(* ======================= properties of the run ======================== *)
\* the position of a cell in the notebook
CellNo(c) ==
    CASE c = "load" -> 1 [] c = "n_chars" -> 2 [] c = "spacy" -> 3 [] c = "nltk" -> 4
      [] c = "log" -> 5 [] c = "fit_spacy" -> 6 [] c = "fit_nltk" -> 7
      [] c = "reg" -> 8 [] c = "plot" -> 9 [] OTHER -> 10

\* the timing loop of p has run to its end
LoopEnded(p) == CellNo(cell) > CellNo(p)

\* the number of samples the loops iterate over
NSamples == IF Iterable(text_data) THEN Len(Iter(text_data)) ELSE 0

\* the run has just recorded the result of sample i of pipeline p
JustRecorded(p) == cell = p /\ pc = "for" /\ i >= 1 /\ err = "none"

\* C1: the duration recorded for a sample is less than or equal to each of
\* the three trial durations of that sample, and is one of them (their minimum),
\* for both pipelines
C1_RecordedIsMinimum ==
    \A p \in Pipelines :
        JustRecorded(p) =>
            /\ Len(Results(p)) = i
            /\ Len(times) = 3
            /\ \A j \in 1..Len(times) : Results(p)[i] <= times[j]
            /\ \E j \in 1..Len(times) : Results(p)[i] = times[j]

\* a second sample of the NLTK loop whose first trial was slower than the recorded one
C1_Witness ==
    /\ JustRecorded("nltk") /\ i = 2
    /\ times[1] > nltk[2]

\* C2: once a timing loop has ended on a corpus of N samples, its result
\* list has N entries, the j-th of them recorded for the j-th sample, and is
\* parallel to n_chars
C2_OneResultPerSample ==
    \A p \in Pipelines :
        LoopEnded(p) =>
            /\ Len(Results(p)) = NSamples
            /\ Len(n_chars) = NSamples
            /\ sampleOf[p] = [j \in 1..NSamples |-> j]

\* both loops have ended on a corpus of at least two samples
C2_Witness ==
    /\ LoopEnded("nltk") /\ NSamples >= 2
    /\ Len(spacy) = NSamples /\ Len(nltk) = NSamples

\* C3: every recorded duration is greater than zero
C3_ElapsedPositive ==
    \A p \in Pipelines : \A j \in 1..Len(Results(p)) : Results(p)[j] > 0

\* the invocations of p that must have happened when the run is at its position
CallsSoFar(p) == Trials(p) * (i - 1) + k + (IF pc = "t2" THEN 1 ELSE 0)

C4_Counts ==
    \A p \in Pipelines :
        /\ (cell = p /\ pc \in {"t1", "call", "t2", "min"} /\ err = "none")
              => /\ calls[p] = CallsSoFar(p)
                 /\ Len(times) = k
        /\ JustRecorded(p) => calls[p] = 3 * i /\ Len(times) = 3
        /\ (cell = p /\ pc = "min" /\ err = "none") => Len(times) = 3
        /\ LoopEnded(p) => calls[p] = 3 * NSamples

\* the Runner is over: both loops have ended or the run has stopped on an error
RunnerOver == LoopEnded("nltk") \/ err # "none"

\* C4: each pipeline is run three times per sample, every run is timed and
\* enters the minimum (no run outside a timed trial), a loop that ends has
\* invoked its pipeline 3N times, and the Runner terminates
C4_ThreeTimedRunsAndTermination == [] C4_Counts /\ <> RunnerOver

\* both loops have ended on two samples, six invocations each
C4_Witness ==
    /\ LoopEnded("nltk") /\ NSamples = 2
    /\ calls["spacy"] = 6 /\ calls["nltk"] = 6

\* the corpus file holds an empty array
EmptyCorpus == doc.kind = "array" /\ doc.items = <<>>

\* C5: on a corpus file with zero entries the Loader returns an empty
\* sequence, both loops end with an empty result list, and no pipeline is invoked
C5_EmptyCorpus ==
    EmptyCorpus =>
        /\ "text_data" \in bound => text_data = [t |-> "list", v |-> <<>>]
        /\ "n_chars" \in bound => n_chars = <<>>
        /\ CellNo(cell) <= CellNo("nltk") => err = "none"
        /\ \A p \in Pipelines :
              /\ calls[p] = 0
              /\ Results(p) = <<>>
              /\ ~(cell = p /\ pc \in {"t1", "call", "t2", "min"})

\* the Runner has finished both loops on the empty corpus
C5_Witness ==
    /\ EmptyCorpus /\ LoopEnded("nltk")
    /\ {"text_data", "n_chars", "spacy", "nltk"} \subseteq bound

\* the corpus file holds an array of strings
StringArray == doc.kind = "array" /\ \A j \in 1..Len(doc.items) : doc.items[j].t = "str"

\* the character a piece of a string literal stands for
Denoted(tok) == CASE tok = "a" -> "a" [] tok = "\\n" -> "LF" [] OTHER -> "?"

\* C6: from a file holding an array of strings the Loader returns the
\* strings in the order of the file, and n_chars has the same length and
\* holds the number of characters of each string
C6_LoaderReturnsSequence ==
    StringArray =>
        /\ CellNo(cell) <= CellNo("n_chars") => err = "none"
        /\ "text_data" \in bound =>
              /\ text_data.t = "list"
              /\ Len(text_data.v) = Len(doc.items)
              /\ \A j \in 1..Len(doc.items) :
                    /\ text_data.v[j].t = "str"
                    /\ Len(text_data.v[j].v) = Len(doc.items[j].v)
                    /\ \A c \in 1..Len(doc.items[j].v) :
                          text_data.v[j].v[c] = Denoted(doc.items[j].v[c])
        /\ "n_chars" \in bound =>
              /\ Len(n_chars) = Len(doc.items)
              /\ \A j \in 1..Len(doc.items) : n_chars[j] = Len(doc.items[j].v)

\* two strings of different lengths, the longer one first, have been loaded and counted
C6_Witness ==
    /\ StringArray /\ "n_chars" \in bound
    /\ Len(doc.items) = 2
    /\ n_chars[1] = 2 /\ n_chars[2] = 1

\* the names bound by the cells after the timing loops
LaterNames ==
    {"log_chars", "log_spacy", "log_nltk", "reg_spacy", "reg_nltk", "fig", "ax"}
    \cup FitNames("spacy") \cup FitNames("nltk")

\* C7: when a pipeline raises, the run stops with that exception, at the
\* call that raised: no result for the current sample, no later trial or
\* sample, no fit and no plot
C7_PipelineErrorPropagates ==
    thrown # "none" =>
        /\ err = thrown
        /\ cell \in Pipelines /\ pc = "call"
        /\ Len(Results(cell)) = i - 1
        /\ Len(times) = k
        /\ calls[cell] = Trials(cell) * (i - 1) + k + 1
        /\ cell = "spacy" => calls["nltk"] = 0 /\ "nltk" \notin bound
        /\ bound \cap LaterNames = {}

\* the NLTK pipeline raised in the second trial of the second sample
C7_Witness ==
    /\ thrown = "LookupError" /\ cell = "nltk"
    /\ i = 2 /\ k = 1

\* some size or recorded duration has no logarithm
SomeNonPositive ==
    \/ \E j \in 1..Len(n_chars) : n_chars[j] <= 0
    \/ \E j \in 1..Len(spacy) : spacy[j] <= 0
    \/ \E j \in 1..Len(nltk) : nltk[j] <= 0

\* C8: when a size or a recorded duration handed to the Fitter is zero or
\* negative, the log transform raises ValueError (math domain error), the
\* run stops there and no slope, intercept or r is bound
C8_NonPositiveFailsFit ==
    /\ []((CellNo(cell) >= CellNo("log") /\ SomeNonPositive) =>
            /\ cell = "log"
            /\ err \in {"none", "ValueError"}
            /\ bound \cap (FitNames("spacy") \cup FitNames("nltk") \cup {"fig", "ax"}) = {})
    /\ [][(cell = "log" /\ err = "none" /\ SomeNonPositive) => err' = "ValueError"]_vars

\* positive sizes and spaCy durations, a negative NLTK duration: the log transform failed
C8_Witness ==
    /\ cell = "log" /\ err = "ValueError"
    /\ Len(n_chars) >= 1
    /\ \A j \in 1..Len(n_chars) : n_chars[j] > 0 /\ spacy[j] > 0
    /\ \E j \in 1..Len(nltk) : nltk[j] < 0

\* C9: when fewer than two distinct sizes reach the Fitter (empty corpus,
\* one sample, samples of equal length), a regression cell fails and binds no
\* slope, intercept or r
C9_DegenerateSizesFail ==
    (CellNo(cell) >= CellNo("fit_spacy") /\ Degenerate(n_chars)) =>
        /\ bound \cap (FitNames("spacy") \cup FitNames("nltk")) = {}
        /\ cell = "fit_spacy"

\* the file is no array of strings
NotStringArray == ~StringArray

\* C10 as stated: a file that is missing, unreadable or not an array of
\* strings makes the Loader fail, so no pipeline is invoked
C10_LoaderRejectsOtherStructure ==
    NotStringArray =>
        /\ CellNo(cell) <= CellNo("n_chars")
        /\ \A p \in Pipelines : calls[p] = 0

\* the file cannot be opened or is not JSON
NoJson == doc.kind \in {"missing", "unreadable", "malformed"}

\* the file is JSON, of a value that cannot be iterated or with an entry that has no length
NoLength ==
    \/ doc.kind = "number"
    \/ doc.kind = "array" /\ \E j \in 1..Len(doc.items) : doc.items[j].t = "num"

\* C10 amended: a file that is missing, unreadable or not JSON stops the
\* run in the load cell with nothing bound; a JSON number or an array with a
\* number stops it in the n_chars cell with TypeError; in both cases no
\* pipeline is invoked
C10_LoaderFailures ==
    /\ NoJson =>
          /\ cell = "load" /\ bound = {}
          /\ err \in {"none", "FileNotFoundError", "PermissionError", "JSONDecodeError"}
          /\ text_data = Undefined
          /\ \A p \in Pipelines : calls[p] = 0
    /\ NoLength =>
          /\ CellNo(cell) <= CellNo("n_chars")
          /\ "n_chars" \notin bound
          /\ err \in {"none", "TypeError"}
          /\ cell = "load" => err = "none"
          /\ \A p \in Pipelines : calls[p] = 0

\* the load cell has failed on a file that is not JSON
C10_Witness == doc.kind = "malformed" /\ cell = "load" /\ err = "JSONDecodeError"

(* ===================== properties of the Fitter ======================= *)
\* the regression of p has returned numbers
Fitted(p) == fitres[p].done /\ ~fitres[p].nan

\* C11: for positive sizes and durations with at least two distinct sizes,
\* the r**2 the regression cell shows lies between 0 and 1, both included
C11_RSquaredInUnitInterval ==
    \A p \in Pipelines :
        (fitres[p].done /\ ~Degenerate(n_chars)) =>
            /\ ~fitres[p].nan
            /\ fitres[p].r_squared.den > 0
            /\ 0 <= fitres[p].r_squared.num
            /\ fitres[p].r_squared.num <= fitres[p].r_squared.den

\* three points that are not on one line: r**2 strictly between 0 and 1
C11_Witness ==
    /\ Fitted("spacy") /\ Len(n_chars) = 3
    /\ 0 < fitres["spacy"].r_squared.num
    /\ fitres["spacy"].r_squared.num < fitres["spacy"].r_squared.den

\* a = b for fractions
RatEq(a, b) == a.num * b.den = b.num * a.den

\* a = b + c for fractions a, b and a whole number c
RatShifted(a, b, c) == a.num * b.den = (b.num + c * b.den) * a.den

\* the second list of durations is the first one multiplied by f
ScaledBy(f) == \A j \in 1..Len(spacy) : nltk[j] = f * spacy[j]

FitBound(p) == FitNames(p) \cap bound # {}

\* what holds in every state of a sequential run
SequentialState ==
    /\ Cardinality(measuring) <= 1
    /\ measuring # {} => cell \in Pipelines /\ pc \in {"call", "t2"}
    /\ \A m \in measuring : m = <<cell, i, k + 1>>
    /\ (calls["nltk"] > 0 \/ \E m \in measuring : m[1] = "nltk") =>
          /\ calls["spacy"] = SpacyTrials * NSamples
          /\ Len(spacy) = NSamples
          /\ \A m \in measuring : m[1] # "spacy"
    /\ \A p \in Pipelines :
          (FitBound(p) \/ cell = FitCell(p)) =>
              /\ LoopEnded("spacy") /\ LoopEnded("nltk")
              /\ Len(Results(p)) = NSamples
              /\ calls[p] = Trials(p) * NSamples
              /\ measuring = {}
    /\ "fig" \in bound => FitBound("spacy") /\ FitBound("nltk")

\* what holds of every step: the cells run in the order of the notebook
SequentialStep == CellNo(cell') \in {CellNo(cell), CellNo(cell) + 1}

\* C13: the run goes through load, spaCy timing, NLTK timing, fit and plot
\* in this order; at most one measured interval is open at a time; all spaCy
\* trials are over before the first NLTK trial starts; a regression is
\* computed only after all results of its pipeline are recorded
C13_SequentialOrder == [] SequentialState /\ [][SequentialStep]_vars

\* a whole run over two samples: six trials of each pipeline, then fit and plot
C13_Witness ==
    /\ cell = "done" /\ err = "none" /\ NSamples = 2
    /\ calls["spacy"] = 6 /\ calls["nltk"] = 6
    /\ FitBound("spacy") /\ FitBound("nltk") /\ "fig" \in bound

\* C14: once bound, text_data and n_chars keep their value in every step of
\* the run, and no step after the end of the spaCy loop changes spacy
C14_InputsAndFirstResultsKept ==
    [][ /\ "text_data" \in bound => text_data' = text_data
        /\ "n_chars" \in bound => n_chars' = n_chars
        /\ LoopEnded("spacy") => spacy' = spacy ]_vars

\* the NLTK loop has recorded two results next to the two spaCy results
C14_Witness ==
    /\ JustRecorded("nltk") /\ i = 2
    /\ Len(spacy) = 2 /\ Len(nltk) = 2 /\ Len(n_chars) = 2

\* the first trial of sample i of pipeline p is about to start
FirstTrialAhead(p) == cell = p /\ pc = "t1" /\ k = 0 /\ err = "none"

\* C15: times is empty before the first trial of each sample, and the value
\* recorded for a sample is the smallest of the three durations measured
\* for that sample, whatever was measured before
C15_OwnTrialsOnly ==
    \A p \in Pipelines :
        /\ FirstTrialAhead(p) => times = <<>> /\ trialLog = <<>>
        /\ JustRecorded(p) =>
              /\ Len(trialLog) = Trials(p)
              /\ times = trialLog
              /\ \E j \in 1..Len(trialLog) : Results(p)[i] = trialLog[j]
              /\ \A j \in 1..Len(trialLog) : Results(p)[i] <= trialLog[j]

\* the second NLTK sample is recorded with a value larger than the one of
\* the first NLTK sample and than the one of the same sample under spaCy
C15_Witness ==
    /\ JustRecorded("nltk") /\ i = 2
    /\ nltk[2] > nltk[1]
    /\ nltk[2] > spacy[2]
====
